---- MODULE Spec2Model ----
(***************************************************************************)
(* Run persistence of dust (src/src/run.rs): RunConfig, Run, Run::store,   *)
(* RunConfig::load, Run::load, cmd_inspect and cmd_list, over a model of   *)
(* the directory tree below <root>/.runs.                                  *)
(*                                                                         *)
(* Every `.await` of the source that touches the filesystem is one step of *)
(* the process that executes it, so concurrent store() calls and readers   *)
(* interleave at exactly the suspension points of the code.                *)
(***************************************************************************)
EXTENDS Integers, Sequences, FiniteSets, TLC

VARIABLES
    ws,       \* the workspace: "ok", "no_runs" (.runs missing), "no_root"
    fs,       \* run_id -> the directory .runs/<run_id> (or its absence)
    runs,     \* the Run values built by Run::new, in creation order
    stores,   \* the store() calls made so far, each with its position
    rd        \* the read-side call in flight (or its outcome)

vars == <<ws, fs, runs, stores, rd>>

----------------------------------------------------------------------------
(* Bounds of the model.                                                    *)

MaxRuns == 1        \* Run::new calls
MaxStores == 2      \* store() calls
MaxTraces == 2      \* trace entries the engine appends to one Run

----------------------------------------------------------------------------
(* Values.                                                                 *)

\* utils::new_id(): the n-th identifier handed out; identifiers are unique.
new_id(n) == "r" \o ToString(n)

\* Identifiers a caller can name: those new_id hands out, those of the runs
\* of earlier executions, and one no run ever had.
RunIds ==
    {new_id(n) : n \in 1..MaxRuns} \cup {"old1", "old2", "notes.txt", "nonexistent-id"}

EmptyMap == [k \in {} |-> ""]

\* RunConfig values the runs are launched with: a blocks map without keys
\* and one with two keys; the second shares its start_time with an earlier
\* run (a tie for the listing).
Configs ==
    { [start_time |-> 100, app_hash |-> "h1", blocks |-> EmptyMap],
      [start_time |-> 300, app_hash |-> "h2",
       blocks |-> [k \in {"A", "B_1"} |-> IF k = "A" THEN "null" ELSE "{}"]] }

\* The pipeline the engine executes: block i (0-based) as a trace entry
\* ((block_type, name), per-input executions).  Blocks 0 and 1 carry the same
\* (block_type, name); block 1 has no input rows.
PipelineBlock(i) ==
    CASE i = 0 -> << <<"code", "A">>, << <<"value">>, <<"error", "skipped">> >> >>
      [] i = 1 -> << <<"code", "A">>, << >> >>
      [] i = 2 -> << <<"data", "B_1">>, << <<"skipped">> >> >>
      [] OTHER -> << <<"code", "1-code_A">>, << <<"value">> >> >>

----------------------------------------------------------------------------
(* Filesystem values.                                                      *)

NoFile == [present |-> FALSE, data |-> << >>]
FileOf(text) == [present |-> TRUE, data |-> text]

\* The entry of .runs under one name: nothing, a directory with its
\* config.json and block directories (each a map file name -> text), or a
\* plain file.
NoDir == [exists |-> FALSE, is_dir |-> FALSE, config |-> NoFile, blocks |-> EmptyMap]
EmptyDir == [exists |-> TRUE, is_dir |-> TRUE, config |-> NoFile, blocks |-> EmptyMap]
PlainFile == [exists |-> TRUE, is_dir |-> FALSE, config |-> NoFile, blocks |-> EmptyMap]

\* Results of a call.
Pending == [kind |-> "Pending", what |-> ""]
Ok == [kind |-> "Ok", what |-> ""]
Panic(msg) == [kind |-> "Panic", what |-> msg]
Err(e) == [kind |-> "Err", what |-> e]

----------------------------------------------------------------------------
(* Serialization (serde_json over the derived Serialize / Deserialize).    *)
(* A JSON text is a sequence of tokens; a file holds such a sequence.      *)

\* The orders in which a HashMap with key set S may be iterated.
KeyOrders(S) ==
    {o \in [1..Cardinality(S) -> S] : \A i, j \in DOMAIN o : i # j => o[i] # o[j]}

\* A serialization that loses the entries of the blocks map.
config_to_string_without_blocks(config, order) ==
    << [t |-> "{"],
       [t |-> "member", key |-> "start_time", num |-> config.start_time],
       [t |-> "member", key |-> "app_hash", str |-> config.app_hash],
       [t |-> "member", key |-> "blocks", obj |-> << >>],
       [t |-> "}"] >>

\* serde_json::to_string(&self.config): the struct's fields in declaration
\* order; the blocks map member by member in the map's iteration order.
config_to_string(config, order) ==
    << [t |-> "{"],
       [t |-> "member", key |-> "start_time", num |-> config.start_time],
       [t |-> "member", key |-> "app_hash", str |-> config.app_hash],
       [t |-> "member", key |-> "blocks",
        obj |-> [i \in 1..Len(order) |-> <<order[i], config.blocks[order[i]]>>]],
       [t |-> "}"] >>

\* serde_json::to_string(executions): a JSON array, one item per branch.
executions_to_string(executions) ==
    << [t |-> "["] >>
    \o [i \in 1..Len(executions) |-> [t |-> "item", exec |-> executions[i]]]
    \o << [t |-> "]"] >>

\* The positions of text holding a member `key` of the value type `field`.
MembersOf(text, key, field) ==
    {i \in 2..(Len(text) - 1) :
        /\ text[i].t = "member"
        /\ text[i].key = key
        /\ field \in DOMAIN text[i]}

\* The HashMap a JSON object deserializes to: a repeated key keeps its last value.
MapOfObject(obj) ==
    [k \in {obj[i][1] : i \in DOMAIN obj} |->
        LET last == CHOOSE i \in DOMAIN obj :
                        /\ obj[i][1] = k
                        /\ \A j \in DOMAIN obj : obj[j][1] = k => j <= i
        IN  obj[last][2]]

\* Whether serde_json::from_str::<RunConfig> accepts text: one complete object
\* with each of the three fields exactly once, each of its type.
IsRunConfigJson(text) ==
    /\ Len(text) >= 2
    /\ text[1].t = "{"
    /\ text[Len(text)].t = "}"
    /\ \A i \in 2..(Len(text) - 1) : text[i].t = "member"
    /\ \A i \in 2..(Len(text) - 1) :
          text[i].key = "start_time" => "num" \in DOMAIN text[i]
    /\ \A i \in 2..(Len(text) - 1) :
          text[i].key = "app_hash" => "str" \in DOMAIN text[i]
    /\ \A i \in 2..(Len(text) - 1) :
          text[i].key = "blocks" => "obj" \in DOMAIN text[i]
    /\ Cardinality(MembersOf(text, "start_time", "num")) = 1
    /\ Cardinality(MembersOf(text, "app_hash", "str")) = 1
    /\ Cardinality(MembersOf(text, "blocks", "obj")) = 1

\* A deserialization that leaves the blocks map empty.
config_from_str_without_blocks(text) ==
    [start_time |->
        text[CHOOSE i \in MembersOf(text, "start_time", "num") : TRUE].num,
     app_hash |->
        text[CHOOSE i \in MembersOf(text, "app_hash", "str") : TRUE].str,
     blocks |-> EmptyMap]

\* serde_json::from_str::<RunConfig>(text), for a text it accepts.
config_from_str(text) ==
    [start_time |->
        text[CHOOSE i \in MembersOf(text, "start_time", "num") : TRUE].num,
     app_hash |->
        text[CHOOSE i \in MembersOf(text, "app_hash", "str") : TRUE].str,
     blocks |->
        MapOfObject(text[CHOOSE i \in MembersOf(text, "blocks", "obj") : TRUE].obj)]

----------------------------------------------------------------------------
(* Paths.                                                                  *)

\* A directory name without the index prefix.
block_dir_name_without_index(block_idx, block_type, name) ==
    block_type \o "_" \o name

\* format!("{}-{}_{}", block_idx, block_type.to_string(), name)
block_dir_name(block_idx, block_type, name) ==
    ToString(block_idx) \o "-" \o block_type \o "_" \o name

\* File names counted from one.
executions_file_name_one_based(input_idx) == ToString(input_idx + 1) \o ".json"

\* format!("{}.json", input_idx)
executions_file_name(input_idx) == ToString(input_idx) \o ".json"

----------------------------------------------------------------------------
(* Filesystem primitives.                                                  *)

\* async_std::fs::create_dir_all on a run directory: creates it when it is
\* missing, succeeds and leaves it alone when it is already there.
CreateRunDir(dir) == IF dir.exists THEN dir ELSE EmptyDir

\* create_dir_all on a block directory of run directory dir.
CreateBlockDir(dir, name) ==
    IF name \in DOMAIN dir.blocks
    THEN dir
    ELSE [dir EXCEPT !.blocks =
            [d \in DOMAIN dir.blocks \cup {name} |->
                IF d = name THEN EmptyMap ELSE dir.blocks[d]]]

\* The prefixes of text a write_all may have put on disk when it returns:
\* nothing yet, a first chunk, or all of it.
WrittenPrefixes(text) == {0, Len(text) \div 2, Len(text)}

\* File::create: the file exists and is empty afterwards (created or truncated).
CreateFile(file) == FileOf(<< >>)

\* The first n tokens of text written from offset 0 over what the file holds.
WriteAt(file, text, n) ==
    FileOf(SubSeq(text, 1, n) \o SubSeq(file.data, n + 1, Len(file.data)))

\* The file named name in block directory blockdir, NoFile when there is none.
FileIn(blockdir, name) ==
    IF name \in DOMAIN blockdir THEN FileOf(blockdir[name]) ELSE NoFile

\* Block directory blockdir with file name holding data.
PutFile(blockdir, name, file) ==
    [f \in DOMAIN blockdir \cup {name} |->
        IF f = name THEN file.data ELSE blockdir[f]]

----------------------------------------------------------------------------
(* Initial state: an empty .runs directory (or an uninitialized workspace), *)
(* no Run built, no call made.                                              *)

NoConfig == [start_time |-> 0, app_hash |-> "", blocks |-> EmptyMap]
NoRun == [run_id |-> "", config |-> NoConfig, traces |-> << >>]

\* No read-side call made yet.
NoRead ==
    [op |-> "none", pc |-> "done", run_id |-> "", block |-> "",
     result |-> Pending, config |-> NoConfig, run |-> NoRun,
     pending |-> {}, seen |-> {}, runs |-> << >>, output |-> << >>]

\* The run directory a store() of run leaves when it runs alone to its end:
\* config.json, and per trace entry a directory with one file per input.
StoredDir(run, order) ==
    [exists |-> TRUE,
     is_dir |-> TRUE,
     config |-> FileOf(config_to_string(run.config, order)),
     blocks |->
        [d \in {block_dir_name(i - 1, run.traces[i][1][1], run.traces[i][1][2]) :
                    i \in DOMAIN run.traces} |->
            LET i == CHOOSE i \in DOMAIN run.traces :
                        d = block_dir_name(i - 1, run.traces[i][1][1],
                                           run.traces[i][1][2])
                execs == run.traces[i][2]
            IN  [f \in {executions_file_name(j - 1) : j \in DOMAIN execs} |->
                    LET j == CHOOSE j \in DOMAIN execs :
                                f = executions_file_name(j - 1)
                    IN  executions_to_string(execs[j])]]]

\* Runs stored by earlier executions of the program.
OldRuns ==
    << [run_id |-> "old1",
        config |-> [start_time |-> 200, app_hash |-> "h0",
                    blocks |-> [k \in {"A"} |-> "0"]],
        traces |-> << PipelineBlock(0) >>],
       [run_id |-> "old2",
        config |-> [start_time |-> 300, app_hash |-> "h0", blocks |-> EmptyMap],
        traces |-> << >>] >>

\* .runs as earlier executions left it: the old runs and a stray plain file.
OldEntries ==
    [id \in RunIds |->
        IF \E i \in DOMAIN OldRuns : OldRuns[i].run_id = id
        THEN LET run == OldRuns[CHOOSE i \in DOMAIN OldRuns : OldRuns[i].run_id = id]
             IN  StoredDir(run, CHOOSE o \in KeyOrders(DOMAIN run.config.blocks) : TRUE)
        ELSE IF id = "notes.txt" THEN PlainFile
        ELSE NoDir]

Init ==
    /\ ws \in {"ok", "no_runs", "no_root"}
    /\ fs \in {[id \in RunIds |-> NoDir]}
              \cup (IF ws = "ok" THEN {OldEntries} ELSE {})
    /\ runs = << >>
    /\ stores = << >>
    /\ rd = NoRead

----------------------------------------------------------------------------
(* Run::new and the engine.                                                *)

\* Run::new(config): a fresh run_id, the config, no traces.
Run_new(config) ==
    /\ Len(runs) < MaxRuns
    /\ runs' = Append(runs, [run_id |-> new_id(Len(runs) + 1),
                             config |-> config,
                             traces |-> << >>])
    /\ UNCHANGED <<ws, fs, stores, rd>>

\* Whether a store() call borrows Run i at the moment.
Borrowed(i) ==
    \E p \in DOMAIN stores : stores[p].owner = i /\ stores[p].pc # "done"

\* The engine appends the execution of the next block of the pipeline to the
\* traces of Run i; it needs the Run mutably, so no store() of it is running.
EnginePush(i) ==
    /\ i \in DOMAIN runs
    /\ ~Borrowed(i)
    /\ Len(runs[i].traces) < MaxTraces
    /\ runs' = [runs EXCEPT ![i].traces =
                    Append(@, PipelineBlock(Len(runs[i].traces)))]
    /\ UNCHANGED <<ws, fs, stores, rd>>

----------------------------------------------------------------------------
(* Run::store, one action per suspension point.                            *)

\* utils::init_check(): the root of an initialized workspace, an error when
\* there is no workspace root.  With the root in place and .runs missing it
\* may report the workspace uninitialized or return the root.
init_check ==
    CASE ws = "ok" -> {Ok}
      [] ws = "no_root" -> {Err("WorkspaceUninitialized")}
      [] OTHER -> {Err("WorkspaceUninitialized"), Ok}

\* A head without assert!(runs_dir.is_dir().await).
WorkspaceOutcomesUnasserted == init_check

\* What the head of store() and of RunConfig::load finds of the workspace:
\* the error of init_check()?, or assert!(runs_dir.is_dir().await) panics
\* when .runs is missing.
WorkspaceOutcomes ==
    {IF w = Ok /\ ws # "ok"
     THEN Panic("assertion failed: runs_dir.is_dir().await")
     ELSE w : w \in init_check}

\* A head without assert!(!run_dir.exists().await).
StoreHeadWithoutExistsCheck(w, dir) ==
    IF w # Ok THEN w ELSE Pending

\* The outcome of the head of store() for run directory dir: the workspace
\* check, then assert!(!run_dir.exists().await).
StoreHead(w, dir) ==
    IF w # Ok THEN w
    ELSE IF dir.exists THEN Panic("assertion failed: !run_dir.exists().await")
    ELSE Pending

\* self.store() is called on run (Run number owner, 0 for a Run that
\* Run::load returned): lines 74-79.
StoreCall(run, owner) ==
    /\ Len(stores) < MaxStores
    /\ \E w \in WorkspaceOutcomes :
          LET head == StoreHead(w, fs[run.run_id]) IN
          stores' = Append(stores,
                       [run |-> run, owner |-> owner,
                        pc |-> IF head = Pending THEN "create_run_dir" ELSE "done",
                        block_idx |-> 0, input_idx |-> 0, buf |-> << >>,
                        result |-> head])
    /\ UNCHANGED <<ws, fs, runs, rd>>

\* A loop over the traces that ends after the first block it stored.
AfterInputFirstBlockOnly(proc, block_idx, input_idx) ==
    IF input_idx < Len(proc.run.traces[block_idx + 1][2])
    THEN [proc EXCEPT !.pc = "create_executions",
                      !.block_idx = block_idx, !.input_idx = input_idx,
                      !.buf = << >>]
    ELSE [proc EXCEPT !.pc = "done", !.result = Ok, !.buf = << >>]

\* Where store() goes after block block_idx's input input_idx - 1 (or its
\* directory, when input_idx = 0): that block's next input, the next block's
\* directory, or the end.
AfterInput(proc, block_idx, input_idx) ==
    IF input_idx < Len(proc.run.traces[block_idx + 1][2])
    THEN [proc EXCEPT !.pc = "create_executions",
                      !.block_idx = block_idx, !.input_idx = input_idx,
                      !.buf = << >>]
    ELSE IF block_idx + 1 < Len(proc.run.traces)
    THEN [proc EXCEPT !.pc = "create_block_dir",
                      !.block_idx = block_idx + 1, !.input_idx = 0,
                      !.buf = << >>]
    ELSE [proc EXCEPT !.pc = "done", !.result = Ok, !.buf = << >>]

\* A loop over the traces that starts at the last entry.
AfterConfigLastBlockFirst(proc) ==
    IF Len(proc.run.traces) > 0
    THEN [proc EXCEPT !.pc = "create_block_dir",
                      !.block_idx = Len(proc.run.traces) - 1,
                      !.input_idx = 0, !.buf = << >>]
    ELSE [proc EXCEPT !.pc = "done", !.result = Ok, !.buf = << >>]

\* Where store() goes once config.json is flushed.
AfterConfig(proc) ==
    IF Len(proc.run.traces) > 0
    THEN [proc EXCEPT !.pc = "create_block_dir", !.block_idx = 0,
                      !.input_idx = 0, !.buf = << >>]
    ELSE [proc EXCEPT !.pc = "done", !.result = Ok, !.buf = << >>]

\* The name of the directory of the block proc is at.
BlockDirOf(proc) ==
    LET entry == proc.run.traces[proc.block_idx + 1] IN
    block_dir_name(proc.block_idx, entry[1][1], entry[1][2])

\* async_std::fs::create_dir_all(&run_dir): it creates the missing ancestors
\* of run_dir too, so a missing .runs under the root comes into being.
StoreCreateRunDir(p) ==
    /\ stores[p].pc = "create_run_dir"
    /\ fs' = [fs EXCEPT ![stores[p].run.run_id] = CreateRunDir(@)]
    /\ ws' = IF ws = "no_runs" THEN "ok" ELSE ws
    /\ stores' = [stores EXCEPT ![p].pc = "create_config"]
    /\ UNCHANGED <<runs, rd>>

\* A store() that makes config.json under the directory of the Run built
\* last instead of under its own run_id.
StoreCreateConfigOfLastRun(p) ==
    /\ stores[p].pc = "create_config"
    /\ fs' = [fs EXCEPT ![new_id(Len(runs))].config = CreateFile(@)]
    /\ stores' = [stores EXCEPT ![p].pc = "write_config"]
    /\ UNCHANGED <<ws, runs, rd>>

\* File::create(config_path)
StoreCreateConfig(p) ==
    /\ stores[p].pc = "create_config"
    /\ fs' = [fs EXCEPT ![stores[p].run.run_id].config = CreateFile(@)]
    /\ stores' = [stores EXCEPT ![p].pc = "write_config"]
    /\ UNCHANGED <<ws, runs, rd>>

\* file.write_all(serde_json::to_string(&self.config)?.as_bytes()): the text
\* is handed to the file; any prefix of it may have reached the disk.
StoreWriteConfig(p) ==
    /\ stores[p].pc = "write_config"
    /\ \E order \in KeyOrders(DOMAIN stores[p].run.config.blocks) :
          LET text == config_to_string(stores[p].run.config, order) IN
          \E n \in WrittenPrefixes(text) :
             /\ fs' = [fs EXCEPT ![stores[p].run.run_id].config =
                                      WriteAt(@, text, n)]
             /\ stores' = [stores EXCEPT ![p].pc = "flush_config",
                                         ![p].buf = text]
    /\ UNCHANGED <<ws, runs, rd>>

\* file.flush(): all of the text is on disk.
StoreFlushConfig(p) ==
    /\ stores[p].pc = "flush_config"
    /\ fs' = [fs EXCEPT ![stores[p].run.run_id].config =
                             WriteAt(@, stores[p].buf, Len(stores[p].buf))]
    /\ stores' = [stores EXCEPT ![p] = AfterConfig(@)]
    /\ UNCHANGED <<ws, runs, rd>>

\* async_std::fs::create_dir_all(&block_dir)
StoreCreateBlockDir(p) ==
    /\ stores[p].pc = "create_block_dir"
    /\ fs' = [fs EXCEPT ![stores[p].run.run_id] =
                             CreateBlockDir(@, BlockDirOf(stores[p]))]
    /\ stores' = [stores EXCEPT ![p] = AfterInput(@, @.block_idx, 0)]
    /\ UNCHANGED <<ws, runs, rd>>

\* File::create(executions_path)
StoreCreateExecutions(p) ==
    /\ stores[p].pc = "create_executions"
    /\ LET proc == stores[p]
           name == executions_file_name(proc.input_idx) IN
       fs' = [fs EXCEPT ![proc.run.run_id].blocks[BlockDirOf(proc)] =
                 PutFile(@, name, CreateFile(FileIn(@, name)))]
    /\ stores' = [stores EXCEPT ![p].pc = "write_executions"]
    /\ UNCHANGED <<ws, runs, rd>>

\* file.write_all(serde_json::to_string(executions)?.as_bytes())
StoreWriteExecutions(p) ==
    /\ stores[p].pc = "write_executions"
    /\ LET proc == stores[p]
           name == executions_file_name(proc.input_idx)
           text == executions_to_string(
                       proc.run.traces[proc.block_idx + 1][2][proc.input_idx + 1]) IN
       \E n \in WrittenPrefixes(text) :
          /\ fs' = [fs EXCEPT ![proc.run.run_id].blocks[BlockDirOf(proc)] =
                       PutFile(@, name, WriteAt(FileIn(@, name), text, n))]
          /\ stores' = [stores EXCEPT ![p].pc = "flush_executions",
                                      ![p].buf = text]
    /\ UNCHANGED <<ws, runs, rd>>

\* file.flush()
StoreFlushExecutions(p) ==
    /\ stores[p].pc = "flush_executions"
    /\ LET proc == stores[p]
           name == executions_file_name(proc.input_idx) IN
       /\ fs' = [fs EXCEPT ![proc.run.run_id].blocks[BlockDirOf(proc)] =
                    PutFile(@, name, WriteAt(FileIn(@, name), proc.buf, Len(proc.buf)))]
       /\ stores' = [stores EXCEPT ![p] =
                        AfterInput(@, proc.block_idx, proc.input_idx + 1)]
    /\ UNCHANGED <<ws, runs, rd>>

\* A filesystem operation of store() fails and `?` returns the error; what
\* has been written stays.
StoreIoError(p) ==
    /\ stores[p].pc # "done"
    /\ stores' = [stores EXCEPT ![p].pc = "done", ![p].result = Err("IOFailure"),
                                ![p].buf = << >>]
    /\ UNCHANGED <<ws, fs, runs, rd>>

Store(p) ==
    \/ StoreCreateRunDir(p)
    \/ StoreCreateConfig(p)
    \/ StoreWriteConfig(p)
    \/ StoreFlushConfig(p)
    \/ StoreCreateBlockDir(p)
    \/ StoreCreateExecutions(p)
    \/ StoreWriteExecutions(p)
    \/ StoreFlushExecutions(p)
    \/ StoreIoError(p)

----------------------------------------------------------------------------
(* RunConfig::load, Run::load, cmd_inspect.                                *)

\* anyhow!("Run ... does not exist", run_id): the message names run_id (the
\* quotes around the name are left out).
NotFound(run_id) == Err("Run " \o run_id \o " does not exist")

\* A head of RunConfig::load without the existence check.
LoadHeadWithoutCheck(w, dir, run_id) ==
    IF w # Ok THEN w ELSE Pending

\* The outcome of the head of RunConfig::load (lines 24-32) for run
\* directory dir: Pending when the load goes on to read config.json.
LoadHead(w, dir, run_id) ==
    IF w # Ok THEN w
    ELSE IF ~dir.exists THEN NotFound(run_id)
    ELSE Pending

\* A load that reports a text it cannot parse as a failed read.
LoadReadParseAsIoFailure(file) ==
    IF ~file.present THEN Err("IOFailure")
    ELSE IF ~IsRunConfigJson(file.data) THEN Err("IOFailure")
    ELSE Ok

\* The outcome of lines 34-39 on the file config.json: read_to_string fails
\* on a missing file, serde_json::from_str on a text that is no RunConfig.
LoadRead(file) ==
    IF ~file.present THEN Err("IOFailure")
    ELSE IF ~IsRunConfigJson(file.data) THEN Err("MalformedData")
    ELSE Ok

\* The RunConfig lines 36-39 return for an accepted config.json.
LoadedConfig(file) ==
    IF LoadRead(file) = Ok THEN config_from_str(file.data) ELSE NoConfig

\* A Run::load that does not carry the run_id over.
LoadedRunWithoutId(run_id, config) ==
    [run_id |-> "", config |-> config, traces |-> << >>]

\* Run { run_id, config, traces: vec![] }
LoadedRun(run_id, config) ==
    [run_id |-> run_id, config |-> config, traces |-> << >>]

\* What cmd_inspect returns once Run::load succeeded: Ok(()), nothing read
\* from the block directories, nothing printed.
InspectOutcome(run, block) == Ok

LoadOps == {"RunConfig::load", "Run::load", "cmd_inspect"}

\* The run_id and block arguments callers pass: the runs built here, a run of
\* an earlier execution and a run that never was; a block name that some run
\* directories have a directory for and others do not.
LoadIds == {new_id(n) : n \in 1..MaxRuns} \cup {"old1", "nonexistent-id"}
Blocks == {"A"}

\* A load that makes sure of the run directory with create_dir_all instead of
\* checking that it exists.
LoadCallCreating(op, run_id, block) ==
    /\ rd.pc = "done"
    /\ rd' = [NoRead EXCEPT !.op = op, !.run_id = run_id, !.block = block,
                            !.pc = "read", !.result = Pending]
    /\ fs' = [fs EXCEPT ![run_id] = CreateRunDir(@)]
    /\ UNCHANGED <<ws, runs, stores>>

\* A caller calls RunConfig::load(run_id), Run::load(run_id) or
\* cmd_inspect(run_id, block); the call runs to its existence check.
LoadCall(op, run_id, block) ==
    /\ rd.pc = "done"
    /\ \E w \in WorkspaceOutcomes :
          LET head == LoadHead(w, fs[run_id], run_id) IN
          rd' = [NoRead EXCEPT !.op = op, !.run_id = run_id, !.block = block,
                               !.pc = IF head = Pending THEN "read" ELSE "done",
                               !.result = head]
    /\ UNCHANGED <<ws, fs, runs, stores>>

\* The call reads and parses config.json and returns.
LoadReturn ==
    /\ rd.op \in LoadOps
    /\ rd.pc = "read"
    /\ LET file == fs[rd.run_id].config
           got == LoadRead(file)
           config == LoadedConfig(file)
           run == LoadedRun(rd.run_id, config) IN
       rd' = [rd EXCEPT
                !.pc = "done",
                !.result = IF got = Ok /\ rd.op = "cmd_inspect"
                           THEN InspectOutcome(run, rd.block) ELSE got,
                !.config = IF rd.op = "RunConfig::load" THEN config ELSE NoConfig,
                !.run = IF got = Ok /\ rd.op = "Run::load" THEN run ELSE NoRun]
    /\ UNCHANGED <<ws, fs, runs, stores>>

----------------------------------------------------------------------------
(* cmd_list.                                                               *)

\* The comparison with a and b swapped: oldest first.
BeforeAscending(a, b) == a[2].start_time <= b[2].start_time

\* runs.sort_by(|a, b| b.1.start_time.cmp(&a.1.start_time)) is a stable
\* sort: entry goes behind every entry that does not come after it.
Before(a, b) == a[2].start_time >= b[2].start_time

\* An insertion that keeps one run per start_time, as into a map keyed by
\* start_time.
InsertSortedDroppingTies(sorted, entry) ==
    IF \E i \in DOMAIN sorted : sorted[i][2].start_time = entry[2].start_time
    THEN sorted
    ELSE SelectSeq(sorted, LAMBDA e : e[2].start_time > entry[2].start_time)
         \o <<entry>>
         \o SelectSeq(sorted, LAMBDA e : e[2].start_time < entry[2].start_time)

RECURSIVE InsertSorted(_, _)
InsertSorted(sorted, entry) ==
    IF sorted = << >> THEN <<entry>>
    ELSE IF Before(sorted[1], entry)
         THEN <<sorted[1]>> \o InsertSorted(Tail(sorted), entry)
         ELSE <<entry>> \o sorted

RECURSIVE sort_by(_)
sort_by(entries) ==
    IF entries = << >> THEN << >>
    ELSE InsertSorted(sort_by(SubSeq(entries, 1, Len(entries) - 1)),
                      entries[Len(entries)])

\* The line cmd_list prints for one run.
InfoLine(entry) ==
    [run_id |-> entry[1], app_hash |-> entry[2].app_hash,
     start_time |-> entry[2].start_time]

\* The entries of .runs.
RunEntries == {id \in RunIds : fs[id].exists}

\* What read_dir(runs_dir) gives in the workspace: init_check's error, or an
\* I/O error for a missing .runs (cmd_list asserts nothing).
ListOpenOutcomes ==
    {IF w = Ok /\ ws # "ok" THEN Err("IOFailure") ELSE w : w \in init_check}

\* cmd_list() is called and opens .runs (lines 134-139).
ListCall ==
    /\ rd.pc = "done"
    /\ \E w \in ListOpenOutcomes :
          rd' = [NoRead EXCEPT !.op = "cmd_list",
                               !.pc = IF w = Ok THEN "next" ELSE "done",
                               !.result = IF w = Ok THEN Pending ELSE w,
                               !.pending = IF w = Ok THEN RunEntries ELSE {}]
    /\ UNCHANGED <<ws, fs, runs, stores>>

\* entries.next() yields an entry not yielded before: one that was there
\* when .runs was opened, or one created since.  An entry that is no directory
\* is passed over; for a directory the loop body runs up to the existence
\* check of RunConfig::load (lines 140-145, 24-32).
ListNext(run_id) ==
    /\ rd.op = "cmd_list"
    /\ rd.pc = "next"
    /\ run_id \in RunEntries \ rd.seen
    /\ \E w \in WorkspaceOutcomes :
          LET head == LoadHead(w, fs[run_id], run_id) IN
          rd' = IF ~fs[run_id].is_dir
                THEN [rd EXCEPT !.seen = @ \cup {run_id},
                                !.pending = @ \ {run_id}]
                ELSE IF head = Pending
                THEN [rd EXCEPT !.run_id = run_id,
                                !.seen = @ \cup {run_id},
                                !.pending = @ \ {run_id},
                                !.pc = "read"]
                ELSE [rd EXCEPT !.run_id = run_id, !.pc = "done", !.result = head,
                                !.runs = << >>, !.seen = {}, !.pending = {}]
    /\ UNCHANGED <<ws, fs, runs, stores>>

\* RunConfig::load reads config.json; cmd_list returns its error, or pushes
\* (run_id, config) (lines 145-146, 34-39).  ListLoaded is the call after it.
\* A cmd_list that passes over a run whose config does not load.
ListLoadedSkipping(r, file) ==
    IF LoadRead(file) = Ok
    THEN [r EXCEPT !.pc = "next",
                   !.runs = Append(@, <<r.run_id, LoadedConfig(file)>>)]
    ELSE [r EXCEPT !.pc = "next"]

ListLoaded(r, file) ==
    IF LoadRead(file) = Ok
    THEN [r EXCEPT !.pc = "next",
                   !.runs = Append(@, <<r.run_id, LoadedConfig(file)>>)]
    ELSE [r EXCEPT !.pc = "done", !.result = LoadRead(file),
                   !.runs = << >>, !.seen = {}, !.pending = {}]

ListLoad ==
    /\ rd.op = "cmd_list"
    /\ rd.pc = "read"
    /\ rd' = ListLoaded(rd, fs[rd.run_id].config)
    /\ UNCHANGED <<ws, fs, runs, stores>>

\* entries.next() yields None, every entry that was there at the start
\* having been yielded: the runs are sorted and printed (lines 150-160).  The
\* locals of a cmd_list that returned are gone.
ListEnd ==
    /\ rd.op = "cmd_list"
    /\ rd.pc = "next"
    /\ rd.pending = {}
    /\ LET sorted == sort_by(rd.runs) IN
       rd' = [rd EXCEPT !.pc = "done", !.result = Ok,
                        !.output = [i \in 1..Len(sorted) |-> InfoLine(sorted[i])],
                        !.runs = << >>, !.seen = {}]
    /\ UNCHANGED <<ws, fs, runs, stores>>

Read ==
    \/ \E op \in LoadOps, run_id \in LoadIds, block \in Blocks :
          LoadCall(op, run_id, IF op = "cmd_inspect" THEN block ELSE "")
    \/ LoadReturn
    \/ ListCall
    \/ \E run_id \in RunIds : ListNext(run_id)
    \/ ListLoad
    \/ ListEnd

Next ==
    \/ \E config \in Configs : Run_new(config)
    \/ \E i \in 1..MaxRuns : EnginePush(i)
    \/ \E i \in DOMAIN runs : StoreCall(runs[i], i)
    \/ rd.op = "Run::load" /\ rd.result = Ok /\ StoreCall(rd.run, 0)
    \/ \E p \in DOMAIN stores : Store(p)
    \/ Read

Spec == Init /\ [][Next]_vars

----------------------------------------------------------------------------
(* Two Runs with different run_ids, built and executed, and their store()  *)
(* calls side by side.                                                     *)

\* Two Runs the engine has finished with: Run::new gave them different
\* run_ids; their first trace entries name the same block.
IsolationRuns ==
    << [run_id |-> new_id(1),
        config |-> CHOOSE c \in Configs : c.start_time = 300,
        traces |-> << PipelineBlock(0), PipelineBlock(1) >>],
       [run_id |-> new_id(2),
        config |-> CHOOSE c \in Configs : c.start_time = 100,
        traces |-> << PipelineBlock(0) >>] >>

InitIsolation ==
    /\ ws = "ok"
    /\ fs \in {[id \in RunIds \cup {IsolationRuns[i].run_id : i \in DOMAIN IsolationRuns} |->
                   IF id \in DOMAIN entries THEN entries[id] ELSE NoDir] :
                 entries \in {[id \in RunIds |-> NoDir], OldEntries}}
    /\ runs = IsolationRuns
    /\ stores = << >>
    /\ rd = NoRead

NextIsolation ==
    \/ \E i \in DOMAIN runs : StoreCall(runs[i], i)
    \/ \E p \in DOMAIN stores : Store(p)

SpecIsolation == InitIsolation /\ [][NextIsolation]_vars

----------------------------------------------------------------------------
(* cmd_list over a .runs directory that no store() is writing to.          *)

\* What .runs/<new_id(1)> can be once the store() calls on it have ended:
\* absent, left without config.json by a store() that failed, or stored.
QuiescentRunDirs ==
    {NoDir, EmptyDir}
    \cup UNION {{StoredDir([run_id |-> new_id(1), config |-> c,
                            traces |-> << PipelineBlock(0) >>], o) :
                    o \in KeyOrders(DOMAIN c.blocks)} : c \in Configs}

InitListing ==
    /\ ws \in {"ok", "no_runs", "no_root"}
    /\ fs \in IF ws = "ok"
              THEN {[id \in RunIds |->
                        CASE id = new_id(1) -> new
                          [] id \in old -> OldEntries[id]
                          [] OTHER -> NoDir] :
                      new \in QuiescentRunDirs,
                      old \in SUBSET {"old1", "old2", "notes.txt"}}
              ELSE {[id \in RunIds |-> NoDir]}
    /\ runs = << >>
    /\ stores = << >>
    /\ rd = NoRead

NextListing ==
    \/ ListCall
    \/ \E run_id \in RunIds : ListNext(run_id)
    \/ ListLoad
    \/ ListEnd

SpecListing == InitListing /\ [][NextListing]_vars

----------------------------------------------------------------------------
(* RunConfig::config_for_block, applied to RunConfig values of its own.    *)

\* Option<&Value>
None == [some |-> FALSE, value |-> ""]
Some(value) == [some |-> TRUE, value |-> value]

\* A lookup that answers the null value for a block without configuration.
config_for_block_or_null(self, name) ==
    IF name \in DOMAIN self.blocks THEN Some(self.blocks[name]) ELSE Some("null")

\* self.blocks.get(name)
config_for_block(self, name) ==
    IF \E k \in DOMAIN self.blocks : k = name
    THEN Some(self.blocks[CHOOSE k \in DOMAIN self.blocks : k = name])
    ELSE None

\* The RunConfig values and block names the lookup is applied to: every
\* blocks map over three names with two values, and names with and without
\* an entry (one differing from a key in case, one a prefix of a key).
LookupKeys == {"A", "a", "B_1"}
LookupValues == {"null", "{}"}
LookupNames == LookupKeys \cup {"B", ""}
LookupConfigs ==
    {[start_time |-> 100, app_hash |-> "h1", blocks |-> m] :
        m \in UNION {[S -> LookupValues] : S \in SUBSET LookupKeys}}

InitLookup ==
    /\ ws = "ok"
    /\ fs = [id \in RunIds |-> NoDir]
    /\ runs = << >>
    /\ stores = << >>
    /\ rd \in {[NoRead EXCEPT !.op = "config_for_block", !.pc = "call",
                               !.config = c, !.block = name] :
                   c \in LookupConfigs, name \in LookupNames}

\* A caller evaluates config.config_for_block(name) on a borrowed RunConfig.
ConfigForBlock ==
    /\ rd.op = "config_for_block"
    /\ rd.pc = "call"
    /\ rd' = [rd EXCEPT !.pc = "done", !.result = Ok,
                        !.output = <<config_for_block(rd.config, rd.block)>>]
    /\ UNCHANGED <<ws, fs, runs, stores>>

NextLookup == ConfigForBlock

SpecLookup == InitLookup /\ [][NextLookup]_vars

----------------------------------------------------------------------------
(* Notions the properties are stated in.                                   *)

\* A store() call that ended at its head (lines 74-79), before any write.
HeadRejected(proc) ==
    \/ proc.result.kind = "Panic"
    \/ proc.result = Err("WorkspaceUninitialized")

\* The store() calls on run directory id that got past their head.
Writers(id) ==
    {p \in DOMAIN stores : stores[p].run.run_id = id /\ ~HeadRejected(stores[p])}

\* Run directory id was written by one store() call only, which returned Ok.
StoredAlone(id) ==
    /\ Cardinality(Writers(id)) = 1
    /\ \A p \in Writers(id) : stores[p].result = Ok

\* The RunConfig the run with identifier id was launched with.
LaunchedConfig(id) ==
    IF \E i \in DOMAIN runs : runs[i].run_id = id
    THEN runs[CHOOSE i \in DOMAIN runs : runs[i].run_id = id].config
    ELSE IF \E i \in DOMAIN OldRuns : OldRuns[i].run_id = id
    THEN OldRuns[CHOOSE i \in DOMAIN OldRuns : OldRuns[i].run_id = id].config
    ELSE NoConfig

\* The names of the block directories store() makes for traces.
TraceDirNames(traces) ==
    {block_dir_name(i - 1, traces[i][1][1], traces[i][1][2]) : i \in DOMAIN traces}

\* The block directories of run directory dir whose name component is block.
BlockDirsNamed(dir, block) ==
    {d \in DOMAIN dir.blocks :
        \E i \in 0..MaxTraces, block_type \in {"code", "data"} :
            d = block_dir_name(i, block_type, block)}

\* A step in which a caller makes the call op.
Calls(op) == rd.pc = "done" /\ rd' # rd /\ rd'.op = op

\* The positions of store() that write a block's input files.
ExecutionsPcs == {"create_executions", "write_executions", "flush_executions"}

\* The positions of store() after File::create(config_path) returned.
ConfigCreatedPcs ==
    {"write_config", "flush_config", "create_block_dir"} \cup ExecutionsPcs

\* The names of the files store() makes for the first n inputs of a block.
InputFileNames(n) == {executions_file_name(j - 1) : j \in 1..n}

\* The number of block directories store() call proc has created, by its
\* position (0 for a call that failed: its position is gone).
DirsDone(proc) ==
    CASE proc.pc = "create_block_dir" -> proc.block_idx
      [] proc.pc \in ExecutionsPcs -> proc.block_idx + 1
      [] proc.result = Ok -> Len(proc.run.traces)
      [] OTHER -> 0

\* The number of input files proc has created in the directory of its trace
\* entry k (1-based), one of those it has created.
FilesDone(proc, k) ==
    IF proc.pc \in ExecutionsPcs /\ k = proc.block_idx + 1
    THEN IF proc.pc = "create_executions" THEN proc.input_idx
         ELSE proc.input_idx + 1
    ELSE Len(proc.run.traces[k][2])

\* The RunConfig values of the runs of this and of earlier executions.
KnownConfigs == Configs \cup {OldRuns[i].config : i \in DOMAIN OldRuns}

\* config.json of run directory id holds all of the serialization of the
\* RunConfig the run was launched with.
ConfigWritten(id) ==
    /\ fs[id].config.present
    /\ fs[id].config.data
         \in {config_to_string(LaunchedConfig(id), o) :
                 o \in KeyOrders(DOMAIN LaunchedConfig(id).blocks)}

\* The immediate subdirectories of .runs.
RunDirs == {id \in DOMAIN fs : fs[id].exists /\ fs[id].is_dir}

\* The texts that are the serialization of a RunConfig.
SerializedConfigs ==
    UNION {{config_to_string(c, o) : o \in KeyOrders(DOMAIN c.blocks)} :
              c \in KnownConfigs}

----------------------------------------------------------------------------
(* C1.  Write-once, as claimed: a store() called for a run_id whose         *)
(* directory .runs/<run_id> already exists fails with an AlreadyExists      *)
(* error and leaves every stored file and directory unchanged.              *)
(* (The code leaves the files unchanged but panics on its assert! instead   *)
(* of returning an error.)                                                  *)
C1_WriteOnceAlreadyExists ==
    [][(/\ Len(stores') = Len(stores) + 1
        /\ fs[stores'[Len(stores')].run.run_id].exists)
       => (/\ stores'[Len(stores')].result = Err("AlreadyExists")
           /\ fs' = fs)]_vars

(* C2.  Round-trip: once the store() of a Run built by Run::new(c) has      *)
(* returned Ok, a RunConfig::load of its run_id returns Ok with a RunConfig *)
(* equal to c (for the run directory written by that one store() call).     *)
C2_RoundTrip ==
    [][\A i \in DOMAIN runs :
          (/\ StoredAlone(runs[i].run_id)
           /\ rd' # rd
           /\ rd'.op = "RunConfig::load"
           /\ rd'.run_id = runs[i].run_id
           /\ rd'.pc = "done")
          => (rd'.result = Ok /\ rd'.config = runs[i].config)]_vars

C2_Witness ==
    \E i \in DOMAIN runs :
        /\ StoredAlone(runs[i].run_id)
        /\ Cardinality(DOMAIN runs[i].config.blocks) = 2
        /\ rd.op = "RunConfig::load"
        /\ rd.run_id = runs[i].run_id
        /\ rd.pc = "done"
        /\ rd.config = runs[i].config

(* C3.  As claimed: of two store() calls on Runs with the same run_id, at   *)
(* most one returns Ok, in every interleaving.                              *)
C3_AtMostOneStoreSucceeds ==
    \A p, q \in DOMAIN stores :
        (/\ p # q
         /\ stores[p].run.run_id = stores[q].run.run_id
         /\ stores[p].result = Ok)
        => stores[q].result # Ok

(* C4.  Not-found: RunConfig::load(run_id) and Run::load(run_id) for a      *)
(* run_id without a directory .runs/<run_id> return no value, neither a     *)
(* RunConfig nor a Run; in an initialized workspace the error is the        *)
(* run-not-found error naming run_id.                                       *)
C4_NotFound ==
    [][((Calls("RunConfig::load") \/ Calls("Run::load"))
        /\ ~fs[rd'.run_id].exists)
       => (/\ rd'.pc = "done"
           /\ rd'.result.kind # "Ok"
           /\ rd'.config = NoConfig
           /\ rd'.run = NoRun
           /\ (ws = "ok" => rd'.result = NotFound(rd'.run_id)))]_vars

C4_Witness ==
    /\ ws = "ok"
    /\ rd.op = "Run::load"
    /\ rd.run_id = "nonexistent-id"
    /\ ~fs[rd.run_id].exists
    /\ rd.result = NotFound("nonexistent-id")

(* C5.  Listing order: the lines cmd_list prints are sorted by start_time,  *)
(* most recent first: each line's start_time is >= the next line's.         *)
C5_ListingOrder ==
    (rd.op = "cmd_list" /\ rd.pc = "done")
    => \A i \in 1..(Len(rd.output) - 1) :
          rd.output[i].start_time >= rd.output[i + 1].start_time

C5_Witness ==
    /\ rd.op = "cmd_list"
    /\ rd.pc = "done"
    /\ rd.result = Ok
    /\ [i \in 1..Len(rd.output) |-> rd.output[i].start_time] = <<300, 200, 100>>
    /\ rd.output[3].run_id = new_id(1)

(* C6.  Inspect, as claimed: a cmd_inspect(run_id, block_name) that         *)
(* succeeds has found a block directory whose name component is block_name  *)
(* and returns what that directory holds; without such a directory it       *)
(* fails.                                                                   *)
C6_InspectReadsBack ==
    (rd.op = "cmd_inspect" /\ rd.pc = "done" /\ rd.result = Ok)
    => \E d \in BlockDirsNamed(fs[rd.run_id], rd.block) :
          DOMAIN fs[rd.run_id].blocks[d] # {} => rd.output # << >>

(* C7.  Index-collision safety: store() gives the trace entries at          *)
(* different positions different directory names, also when their           *)
(* (block_type, name) pairs are equal, so a stored run has one directory    *)
(* per trace entry.                                                         *)
C7_IndexCollisionSafety ==
    /\ \A p \in DOMAIN stores :
          \A i, j \in DOMAIN stores[p].run.traces :
              i # j =>
                 block_dir_name(i - 1, stores[p].run.traces[i][1][1],
                                stores[p].run.traces[i][1][2])
                 # block_dir_name(j - 1, stores[p].run.traces[j][1][1],
                                  stores[p].run.traces[j][1][2])
    /\ \A p \in DOMAIN stores :
          (stores[p].pc = "create_executions" \/ stores[p].pc = "write_executions"
           \/ stores[p].pc = "flush_executions")
          => \A i \in DOMAIN stores[p].run.traces :
                BlockDirOf(stores[p])
                  = block_dir_name(i - 1, stores[p].run.traces[i][1][1],
                                   stores[p].run.traces[i][1][2])
                => i = stores[p].block_idx + 1

C7_Witness ==
    \E p \in DOMAIN stores :
        /\ stores[p].result = Ok
        /\ Len(stores[p].run.traces) >= 2
        /\ stores[p].run.traces[1][1] = stores[p].run.traces[2][1]
        /\ Cardinality(DOMAIN fs[stores[p].run.run_id].blocks) >= 2

(* C8.  Trace shape: after a store() of a Run with k trace entries returned *)
(* Ok, the run directory holds config.json and exactly k block directories, *)
(* those of the trace positions 0..k-1.                                     *)
C8_TraceShape ==
    \A p \in DOMAIN stores :
        stores[p].result = Ok =>
            LET dir == fs[stores[p].run.run_id] IN
            /\ dir.is_dir
            /\ dir.config.present
            /\ DOMAIN dir.blocks = TraceDirNames(stores[p].run.traces)
            /\ Cardinality(DOMAIN dir.blocks) = Len(stores[p].run.traces)

C8_Witness ==
    \E p \in DOMAIN stores :
        /\ stores[p].result = Ok
        /\ Len(stores[p].run.traces) = 1
        /\ Cardinality(DOMAIN fs[stores[p].run.run_id].blocks) = 1

(* C9.  Listing propagates load failures: when the RunConfig::load of a     *)
(* subdirectory of .runs fails (config.json missing or malformed),          *)
(* cmd_list ends with that error and prints nothing; it does not go on to   *)
(* the next entry.                                                          *)
C9_ListingPropagates ==
    [][(/\ rd.op = "cmd_list"
        /\ rd.pc = "read"
        /\ rd' # rd
        /\ LoadRead(fs[rd.run_id].config) # Ok)
       => (/\ rd'.pc = "done"
           /\ rd'.result = LoadRead(fs[rd.run_id].config)
           /\ rd'.output = << >>)]_vars

C9_Witness ==
    /\ rd.op = "cmd_list"
    /\ rd.pc = "done"
    /\ rd.result = Err("MalformedData")
    /\ \E i \in DOMAIN runs : rd.run_id = runs[i].run_id
    /\ rd.output = << >>

(* C10.  Run::load(run_id) on an existing run returns a Run with that       *)
(* run_id, the RunConfig the run was stored with and empty traces, whatever *)
(* block directories and input files the run directory holds.               *)
C10_RunLoad ==
    (rd.op = "Run::load" /\ rd.pc = "done" /\ rd.result = Ok)
    => (/\ rd.run.run_id = rd.run_id
        /\ rd.run.config = LaunchedConfig(rd.run_id)
        /\ rd.run.traces = << >>)

C10_Witness ==
    /\ rd.op = "Run::load"
    /\ \E i \in DOMAIN runs : rd.run_id = runs[i].run_id
    /\ rd.pc = "done"
    /\ rd.result = Ok
    /\ rd.run.traces = << >>
    /\ \E d \in DOMAIN fs[rd.run_id].blocks :
          Cardinality(DOMAIN fs[rd.run_id].blocks[d]) = 2

(* C11.  Malformed config: a RunConfig::load that finds the run directory   *)
(* and reads a config.json whose text is not the serialization of a         *)
(* RunConfig (an empty or a truncated text) fails with the parse error,     *)
(* which is not the run-not-found error, and returns no RunConfig.          *)
C11_MalformedConfig ==
    [][(/\ rd.op = "RunConfig::load"
        /\ rd.pc = "read"
        /\ rd' # rd
        /\ fs[rd.run_id].config.present
        /\ fs[rd.run_id].config.data \notin SerializedConfigs)
       => (/\ rd'.pc = "done"
           /\ rd'.result = Err("MalformedData")
           /\ rd'.result # NotFound(rd.run_id)
           /\ rd'.config = NoConfig)]_vars

C11_Witness ==
    /\ rd.op = "RunConfig::load"
    /\ rd.pc = "done"
    /\ rd.result = Err("MalformedData")
    /\ fs[rd.run_id].config.present
    /\ Len(fs[rd.run_id].config.data) = 2
    /\ rd.config = NoConfig

(* C12.  store() requires .runs: in a workspace whose root has no .runs     *)
(* directory no store() call returns Ok, and no step creates .runs, a run   *)
(* directory or a file.                                                     *)
C12_StoreRequiresRunsDir ==
    [][ws = "no_runs"
       => (/\ ws' = "no_runs"
           /\ fs' = fs
           /\ \A id \in DOMAIN fs' : fs'[id] = NoDir
           /\ \A p \in DOMAIN stores' :
                 /\ stores'[p].pc = "done"
                 /\ stores'[p].result.kind \in {"Err", "Panic"})]_vars

C12_Witness ==
    /\ ws = "no_runs"
    /\ \E p \in DOMAIN stores :
          /\ stores[p].result = Panic("assertion failed: runs_dir.is_dir().await")
          /\ Len(stores[p].run.traces) > 0
          /\ fs[stores[p].run.run_id] = NoDir

(* C13.  The read side has no side effects: no step of RunConfig::load,     *)
(* Run::load, cmd_inspect or cmd_list, whether the call goes on, succeeds   *)
(* or fails, changes anything under .runs (or .runs itself).                *)
C13_ReadsHaveNoSideEffects ==
    [][rd' # rd => (fs' = fs /\ ws' = ws)]_vars

C13_Witness ==
    /\ rd.op = "cmd_list"
    /\ rd.pc = "done"
    /\ rd.result = Err("IOFailure")
    /\ rd.run_id \in DOMAIN fs
    /\ fs[rd.run_id] = EmptyDir

(* C14.  config_for_block(name) is a pure lookup: with name a key of blocks *)
(* it returns the value blocks maps exactly that name to, without the key   *)
(* it returns the absent value and no error, and the RunConfig is the same  *)
(* after the call.                                                          *)
C14_ConfigForBlock ==
    [][(rd.op = "config_for_block" /\ rd.pc = "call" /\ rd' # rd)
       => (/\ rd'.config = rd.config
           /\ rd'.result = Ok
           /\ Len(rd'.output) = 1
           /\ rd.block \in DOMAIN rd.config.blocks
                 => rd'.output[1] = [some |-> TRUE,
                                     value |-> rd.config.blocks[rd.block]]
           /\ rd.block \notin DOMAIN rd.config.blocks
                 => rd'.output[1] = [some |-> FALSE, value |-> ""])]_vars

C14_Witness ==
    /\ rd.op = "config_for_block"
    /\ rd.pc = "done"
    /\ DOMAIN rd.config.blocks = {"a", "B_1"}
    /\ rd.block = "A"
    /\ rd.output = <<None>>

(* C15.  Write order within one store(): the run directory comes first,     *)
(* then config.json, then per trace entry in increasing order its directory *)
(* followed by its input files in increasing input index.  At every position *)
(* of a store() what it has written up to there is on disk, and when it is  *)
(* the only store() of its run_id nothing else is.  So the block            *)
(* directories present are those of a prefix of the trace entries, and      *)
(* config.json exists whenever a block directory does.                      *)
C15_WriteOrder ==
    \A p \in DOMAIN stores :
        LET proc == stores[p]
            dir == fs[proc.run.run_id]
            traces == proc.run.traces
            alone == Cardinality(Writers(proc.run.run_id)) = 1
            name(k) == block_dir_name(k - 1, traces[k][1][1], traces[k][1][2])
        IN  ~HeadRejected(proc) =>
            /\ (proc.pc \notin {"create_run_dir", "done"} \/ proc.result = Ok)
                  => dir.exists /\ dir.is_dir
            /\ (proc.pc \in ConfigCreatedPcs \/ proc.result = Ok)
                  => dir.config.present
            /\ (alone /\ proc.pc = "create_run_dir") => ~dir.exists
            /\ (alone /\ proc.pc = "create_config") => ~dir.config.present
            /\ \A k \in 1..DirsDone(proc) :
                  /\ name(k) \in DOMAIN dir.blocks
                  /\ InputFileNames(FilesDone(proc, k)) \subseteq DOMAIN dir.blocks[name(k)]
                  /\ alone => DOMAIN dir.blocks[name(k)]
                                 = InputFileNames(FilesDone(proc, k))
            /\ (alone /\ (proc.pc # "done" \/ proc.result = Ok))
                  => DOMAIN dir.blocks = {name(k) : k \in 1..DirsDone(proc)}
            /\ (proc.pc # "done" \/ proc.result = Ok)
                  => \E j \in 0..Len(traces) :
                        DOMAIN dir.blocks = {name(k) : k \in 1..j}
            /\ DOMAIN dir.blocks # {} => dir.config.present

C15_Witness ==
    \E p \in DOMAIN stores :
        /\ Cardinality(Writers(stores[p].run.run_id)) = 1
        /\ Len(stores[p].run.traces) = 2
        /\ stores[p].pc = "write_executions"
        /\ stores[p].block_idx = 0
        /\ stores[p].input_idx = 1
        /\ DOMAIN fs[stores[p].run.run_id].blocks = {"0-code_A"}
        /\ DOMAIN fs[stores[p].run.run_id].blocks["0-code_A"] = {"0.json", "1.json"}

(* C16.  No rollback: no step removes a directory or a file; the step in    *)
(* which a store() fails leaves the filesystem as it is; a store() called   *)
(* for a run_id whose directory exists ends at the existence check without  *)
(* touching a file; so once the store() calls that got past that check have *)
(* ended, failed ones included, the run directory never changes again: a    *)
(* partial run directory stays partial.                                     *)
C16_NoRollback ==
    [][/\ \A id \in DOMAIN fs :
             /\ fs[id].exists => (fs'[id].exists /\ fs'[id].is_dir = fs[id].is_dir)
             /\ fs[id].config.present => fs'[id].config.present
             /\ DOMAIN fs[id].blocks \subseteq DOMAIN fs'[id].blocks
             /\ \A d \in DOMAIN fs[id].blocks :
                   DOMAIN fs[id].blocks[d] \subseteq DOMAIN fs'[id].blocks[d]
       /\ \A p \in DOMAIN stores :
             (stores[p].pc # "done" /\ stores'[p].result.kind = "Err") => fs' = fs
       /\ (/\ Len(stores') = Len(stores) + 1
           /\ fs[stores'[Len(stores')].run.run_id].exists)
          => (/\ stores'[Len(stores')].pc = "done"
              /\ stores'[Len(stores')].result.kind \in {"Panic", "Err"}
              /\ fs' = fs)
       /\ \A id \in DOMAIN fs :
             (fs[id].exists /\ \A p \in Writers(id) : stores[p].pc = "done")
             => fs'[id] = fs[id]]_vars

C16_Witness ==
    \E p, q \in DOMAIN stores :
        /\ p < q
        /\ stores[p].run.run_id = stores[q].run.run_id
        /\ stores[p].result = Err("IOFailure")
        /\ stores[q].result = Panic("assertion failed: !run_dir.exists().await")
        /\ Len(stores[p].run.traces) = 2
        /\ fs[stores[p].run.run_id].config.present
        /\ DOMAIN fs[stores[p].run.run_id].blocks = {"0-code_A"}

(* C17.  Per-input files: after the store() of a Run returned Ok (the one   *)
(* store() that wrote the run directory), for every trace entry i with n    *)
(* inputs the directory of block i holds exactly the n files 0.json ..      *)
(* (n-1).json, and file j holds the serialized executions of input j, one   *)
(* array item per branch in branch order; a block without inputs has an     *)
(* empty directory.                                                         *)
C17_PerInputFiles ==
    \A p \in DOMAIN stores :
        (stores[p].result = Ok /\ StoredAlone(stores[p].run.run_id)) =>
            LET dir == fs[stores[p].run.run_id]
                traces == stores[p].run.traces
            IN  \A i \in DOMAIN traces :
                   LET d == block_dir_name(i - 1, traces[i][1][1], traces[i][1][2])
                       execs == traces[i][2]
                   IN  /\ d \in DOMAIN dir.blocks
                       /\ DOMAIN dir.blocks[d]
                            = {ToString(j - 1) \o ".json" : j \in 1..Len(execs)}
                       /\ Cardinality(DOMAIN dir.blocks[d]) = Len(execs)
                       /\ Len(execs) = 0 => dir.blocks[d] = EmptyMap
                       /\ \A j \in 1..Len(execs) :
                             LET text == dir.blocks[d][ToString(j - 1) \o ".json"]
                             IN  /\ Len(text) = Len(execs[j]) + 2
                                 /\ text[1].t = "["
                                 /\ text[Len(text)].t = "]"
                                 /\ \A k \in 1..Len(execs[j]) :
                                       /\ text[k + 1].t = "item"
                                       /\ text[k + 1].exec = execs[j][k]

C17_Witness ==
    \E p \in DOMAIN stores :
        /\ stores[p].result = Ok
        /\ StoredAlone(stores[p].run.run_id)
        /\ Len(stores[p].run.traces) = 2
        /\ DOMAIN fs[stores[p].run.run_id].blocks = {"0-code_A", "1-code_A"}
        /\ DOMAIN fs[stores[p].run.run_id].blocks["0-code_A"] = {"0.json", "1.json"}
        /\ Len(fs[stores[p].run.run_id].blocks["0-code_A"]["1.json"]) = 4
        /\ fs[stores[p].run.run_id].blocks["1-code_A"] = EmptyMap

(* C18.  Isolation between runs: a step of a store() of a Run with run_id r *)
(* changes nothing but .runs/<r>; every other run directory is the same     *)
(* before and after.  So with store() calls on Runs with different run_ids  *)
(* side by side, each that returns Ok leaves in its run directory exactly   *)
(* what it writes when it runs alone, in every interleaving.                *)
C18_Isolation ==
    [][/\ \A id \in DOMAIN fs :
             fs'[id] # fs[id]
             => \E p \in DOMAIN stores :
                   stores[p].run.run_id = id /\ stores'[p] # stores[p]
       /\ \A p \in DOMAIN stores :
             stores'[p] # stores[p]
             => \A id \in DOMAIN fs \ {stores[p].run.run_id} : fs'[id] = fs[id]
       /\ \A id \in DOMAIN fs :
             StoredAlone(id)'
             => \A p \in DOMAIN stores' :
                   (stores'[p].run.run_id = id /\ stores'[p].result = Ok)
                   => fs'[id] \in {StoredDir(stores'[p].run, o) :
                                     o \in KeyOrders(DOMAIN stores'[p].run.config.blocks)}]_vars

C18_Witness ==
    /\ Len(stores) = 2
    /\ stores[1].run.run_id # stores[2].run.run_id
    /\ stores[1].result = Ok
    /\ stores[2].pc = "write_executions"
    /\ \E o \in KeyOrders(DOMAIN stores[1].run.config.blocks) :
          fs[stores[1].run.run_id] = StoredDir(stores[1].run, o)
    /\ "0-code_A" \in DOMAIN fs[stores[2].run.run_id].blocks

(* C19.  Reader and writer: a RunConfig::load of a run_id that a store() is *)
(* writing, or was writing when it failed, either fails or returns the      *)
(* RunConfig the Run was launched with, never another one.  While           *)
(* config.json is missing or incomplete below the existing run directory    *)
(* the load fails, with an error that is not run-not-found and without a    *)
(* RunConfig, and so does a cmd_list that comes to this run.                *)
C19_ReaderWriter ==
    [][/\ (/\ rd.op = "RunConfig::load"
           /\ rd.pc = "read"
           /\ rd' # rd
           /\ Writers(rd.run_id) # {})
          => /\ rd'.pc = "done"
             /\ \/ rd'.result.kind = "Err" /\ rd'.config = NoConfig
                \/ rd'.result = Ok /\ rd'.config = LaunchedConfig(rd.run_id)
             /\ ~ConfigWritten(rd.run_id)
                   => /\ rd'.result.kind = "Err"
                      /\ rd'.result # NotFound(rd.run_id)
                      /\ rd'.config = NoConfig
       /\ (/\ Calls("RunConfig::load")
           /\ ws = "ok"
           /\ fs[rd'.run_id].exists)
          => rd'.result = Pending
       /\ (/\ rd.op = "cmd_list"
           /\ rd.pc = "read"
           /\ rd' # rd
           /\ Writers(rd.run_id) # {})
          => IF ConfigWritten(rd.run_id)
             THEN rd'.runs = Append(rd.runs, <<rd.run_id, LaunchedConfig(rd.run_id)>>)
             ELSE /\ rd'.pc = "done"
                  /\ rd'.result.kind = "Err"
                  /\ rd'.result # NotFound(rd.run_id)
                  /\ rd'.output = << >>]_vars

C19_Witness ==
    /\ rd.op = "RunConfig::load"
    /\ rd.pc = "done"
    /\ rd.result = Err("IOFailure")
    /\ rd.config = NoConfig
    /\ \E p \in DOMAIN stores :
          /\ stores[p].run.run_id = rd.run_id
          /\ stores[p].pc = "create_config"
          /\ Cardinality(Writers(rd.run_id)) = 1

(* C20.  Listing completeness, with no store() in progress: a cmd_list that *)
(* returns Ok has printed exactly one line per immediate subdirectory of    *)
(* .runs and none for an entry that is no directory; a line carries the     *)
(* directory's name as run_id with the app_hash and start_time of the       *)
(* RunConfig stored there; runs with equal start_time are all there.  When  *)
(* config.json of every subdirectory is a serialized RunConfig, cmd_list    *)
(* returns Ok.                                                              *)
C20_ListingComplete ==
    (rd.op = "cmd_list" /\ rd.pc = "done") =>
        /\ rd.result = Ok =>
              /\ Len(rd.output) = Cardinality(RunDirs)
              /\ {rd.output[i].run_id : i \in DOMAIN rd.output} = RunDirs
              /\ \A i \in DOMAIN rd.output :
                    \E c \in KnownConfigs :
                       /\ fs[rd.output[i].run_id].config.data
                            \in {config_to_string(c, o) : o \in KeyOrders(DOMAIN c.blocks)}
                       /\ rd.output[i].app_hash = c.app_hash
                       /\ rd.output[i].start_time = c.start_time
        /\ (/\ ws = "ok"
            /\ \A id \in RunDirs :
                  fs[id].config.present /\ fs[id].config.data \in SerializedConfigs)
           => rd.result = Ok

C20_Witness ==
    /\ rd.op = "cmd_list"
    /\ rd.pc = "done"
    /\ rd.result = Ok
    /\ fs["notes.txt"].exists
    /\ Len(rd.output) = 3
    /\ {rd.output[i].run_id : i \in DOMAIN rd.output} = {new_id(1), "old1", "old2"}
    /\ rd.output[1].start_time = 300
    /\ rd.output[2].start_time = 300

====
